---- MODULE Spec2Model ----
(***************************************************************************)
(* Model of the tool-calling agent of app/agent.py (a two-node LangGraph   *)
(* workflow: "agent" = call_model, "tools" = ToolNode(tools)) and of the   *)
(* credential store script user_db/create_user.py.                         *)
(***************************************************************************)
EXTENDS Integers, Sequences, FiniteSets, TLC

\* ------------------------------------------------------------------ bounds
\* Longest conversation handed to the agent when a turn starts.
MaxHist == 2
\* Most tool requests the model issues in one turn (over all its messages).
MaxRequests == 2
\* Most direct invocations of the search tool that are recorded.
MaxSearchCalls == 3

Sessions == {1, 2}
Procs == {1, 2}

VARIABLES
    GLOBAL_USER_TYPE,   \* agent.py:27, the process-wide role
    messages,           \* per session: state["messages"]
    pc,                 \* per session: the graph node about to run
    err,                \* per session: the exception that left the graph
    steps,              \* per session: the nodes run so far ("agent"/"tools")
    turnStart,          \* per session: length of the input conversation
    resolveLog,         \* per session: what each call_model read and resolved
    toolLog,            \* per session: what each tool request did
    lastWrite,          \* the call_model that last assigned GLOBAL_USER_TYPE
    searchLog,          \* direct invocations of the search tool
    dbFile,             \* the credential store file
    cu                  \* per process: the frame of create_user

vars == <<GLOBAL_USER_TYPE, messages, pc, err, steps, turnStart, resolveLog,
          toolLog, lastWrite, searchLog, dbFile, cu>>
agentVars == <<GLOBAL_USER_TYPE, messages, pc, err, steps, turnStart,
               resolveLog, toolLog, lastWrite>>
storeVars == <<dbFile, cu>>

\* ------------------------------------------------------- module constants
TOOL_PERMISSION == [admin |-> {"search", "tool2"}, user |-> {"tool1", "tool2"}]

\* TOOL_PERMISSION.get(role, [])
TOOL_PERMISSION_get(role) ==
    IF role \in DOMAIN TOOL_PERMISSION THEN TOOL_PERMISSION[role] ELSE {}

\* tools = [extract_product_info, find_similar_products]
tools == {"extract_product_info", "find_similar_products"}

END == "__end__"
Absent == "<absent>"
NoFileData == "<none>"

\* Roles a request can name; "guest" stands for any role missing from the table.
Roles == {"admin", "user", "default", "guest"}
\* Tool names the model can put in a request (it is not held to the bound set).
RequestableTools == {"extract_product_info", "find_similar_products", "search"}

\* ---------------------------------------------------------------- messages
\* A content part: a dict (with or without "type" / "user_type") or a bare str.
Part(isDict, type, user_type, data) ==
    [isDict |-> isDict, type |-> type, user_type |-> user_type, data |-> data]
TextContent == [isList |-> FALSE, parts |-> <<>>]
ListContent(parts) == [isList |-> TRUE, parts |-> parts]

NoPayload == [kind |-> "none", file |-> NoFileData]

HumanMessage(content) ==
    [type |-> "human", content |-> content, tool_calls |-> <<>>,
     tool_call_id |-> 0, payload |-> NoPayload]
AIMessage(tool_calls) ==
    [type |-> "ai", content |-> TextContent, tool_calls |-> tool_calls,
     tool_call_id |-> 0, payload |-> NoPayload]
\* ToolNode renders every tool output as a string content.
ToolMessage(id, payload) ==
    [type |-> "tool", content |-> TextContent, tool_calls |-> <<>>,
     tool_call_id |-> id, payload |-> payload]

\* Shapes of the content of the latest human message.
LastContents ==
    { TextContent,
      ListContent(<<>>),
      ListContent(<<Part(FALSE, Absent, Absent, NoFileData)>>),
      ListContent(<<Part(TRUE, "text", Absent, NoFileData)>>),
      ListContent(<<Part(TRUE, "text", "admin", NoFileData)>>),
      ListContent(<<Part(TRUE, "text", "user", NoFileData)>>),
      ListContent(<<Part(TRUE, "text", "guest", NoFileData)>>),
      ListContent(<<Part(TRUE, "text", "admin", NoFileData),
                    Part(TRUE, "image_url", Absent, "f1")>>),
      ListContent(<<Part(TRUE, "media", Absent, "f2")>>) }
\* Shapes of the content of the earlier messages of the conversation.
PriorContents ==
    { TextContent,
      ListContent(<<Part(TRUE, "text", "user", NoFileData),
                    Part(TRUE, "image_url", Absent, "f1")>>),
      ListContent(<<Part(TRUE, "media", Absent, "f2"),
                    Part(TRUE, "image_url", Absent, "f3")>>) }

RECURSIVE PriorSeqs(_)
PriorSeqs(n) ==
    IF n = 0 THEN {<<>>}
    ELSE LET shorter == PriorSeqs(n - 1)
         IN shorter \cup
            {Append(q, HumanMessage(c)) : q \in {r \in shorter : Len(r) = n - 1},
                                           c \in PriorContents}
InputConversations ==
    {Append(q, HumanMessage(c)) : q \in PriorSeqs(MaxHist - 1), c \in LastContents}

Last(seq) == seq[Len(seq)]

\* ------------------------------------------------ session role resolution
\* agent.py:208 -- last_message.content[0] on an empty list raises IndexError.
ResolveRaises(content) == content.isList /\ content.parts = <<>>

\* agent.py:208-213 -- the value assigned to GLOBAL_USER_TYPE.
ResolveRole_Default(content) == "default"
ResolveRole(content) ==
    IF content.isList /\ content.parts[1].isDict
    THEN IF content.parts[1].user_type # Absent
         THEN content.parts[1].user_type
         ELSE "default"
    ELSE "default"

\* ------------------------------------------------------------------ tools
\* agent.py:98-100 -- a dict part whose "type" is image_url or media.
IsFilePart(item) == item.isDict /\ item.type \in {"image_url", "media"}

\* agent.py:97-102 -- the inner loop: the first file part of one message.
RECURSIVE FirstFilePart(_, _)
FirstFilePart(parts, i) ==
    IF i > Len(parts) THEN Absent
    ELSE IF IsFilePart(parts[i]) THEN parts[i].data
    ELSE FirstFilePart(parts, i + 1)

\* agent.py:95-102 -- the outer loop over reversed(state["messages"]); the
\* break leaves the inner loop only, so every older message is still visited.
RECURSIVE ScanMessages(_, _, _)
ScanMessages(msgs, i, content_to_add) ==
    IF i = 0 THEN content_to_add
    ELSE LET found == FirstFilePart(msgs[i].content.parts, 1)
         IN ScanMessages(msgs, i - 1,
                         IF found # Absent THEN found ELSE content_to_add)

\* agent.py:78-124 -- outcome is what llm.invoke does: "ok" or "raise";
\* invoked tells whether llm.invoke (agent.py:118) was reached.
extract_product_info_NoGuard(msgs, outcome) ==
    LET content_to_add == ScanMessages(msgs, Len(msgs), Absent)
    IN IF outcome = "ok"
       THEN [ran |-> TRUE, invoked |-> TRUE, raised |-> FALSE, escaped |-> FALSE,
             payload |-> [kind |-> "product_info", file |-> content_to_add]]
       ELSE [ran |-> TRUE, invoked |-> TRUE, raised |-> TRUE, escaped |-> FALSE,
             payload |-> [kind |-> "error_processing", file |-> content_to_add]]
extract_product_info(msgs, outcome) ==
    LET content_to_add == ScanMessages(msgs, Len(msgs), Absent)
    IN IF content_to_add = Absent
       THEN [ran |-> TRUE, invoked |-> FALSE, raised |-> FALSE, escaped |-> FALSE,
             payload |-> [kind |-> "error_not_found", file |-> NoFileData]]
       ELSE IF outcome = "ok"
       THEN [ran |-> TRUE, invoked |-> TRUE, raised |-> FALSE, escaped |-> FALSE,
             payload |-> [kind |-> "product_info", file |-> content_to_add]]
       ELSE [ran |-> TRUE, invoked |-> TRUE, raised |-> TRUE, escaped |-> FALSE,
             payload |-> [kind |-> "error_processing", file |-> content_to_add]]

\* agent.py:127-177 -- outcome is what the token / HTTP / JSON calls do; the
\* body has no try, so an error escapes the tool.
find_similar_products(outcome) ==
    IF outcome = "ok"
    THEN [ran |-> TRUE, invoked |-> FALSE, raised |-> FALSE, escaped |-> FALSE,
          payload |-> [kind |-> "similar_products", file |-> NoFileData]]
    ELSE [ran |-> TRUE, invoked |-> FALSE, raised |-> TRUE, escaped |-> TRUE,
          payload |-> NoPayload]

\* agent.py:37-45 -- query is abstracted to what the two substring tests see.
Queries == [sf : BOOLEAN, san_francisco : BOOLEAN]
search(query, role) ==
    IF (query.sf \/ query.san_francisco) /\ "search" \in TOOL_PERMISSION_get(role)
    THEN "It's 60 degrees and foggy."
    ELSE "You do not have permission to run this tool."

\* What the environment can do to a call of the named tool.
Outcomes(name, msgs) ==
    IF name = "find_similar_products" THEN {"ok", "raise"}
    ELSE IF name = "extract_product_info"
            /\ ScanMessages(msgs, Len(msgs), Absent) # Absent
    THEN {"ok", "raise"}
    ELSE {"ok"}

\* agent.py:225 -- ToolNode(tools) is built with its defaults: an exception
\* that escapes a tool is caught and rendered as an error ToolMessage.
handle_tool_errors_Off == FALSE
handle_tool_errors == TRUE

\* agent.py:225 -- ToolNode's handling of one request: a name outside the
\* registered tools gets an "is not a valid tool" error message and no body
\* runs; otherwise the tool runs and its output (or its caught exception)
\* becomes the message.
RunOne(call, msgs, outcome) ==
    IF call.name \notin tools
    THEN [ran |-> FALSE, invoked |-> FALSE, raised |-> FALSE, escaped |-> FALSE,
          payload |-> [kind |-> "error_invalid_tool", file |-> NoFileData]]
    ELSE LET r == IF call.name = "extract_product_info"
                  THEN extract_product_info(msgs, outcome)
                  ELSE find_similar_products(outcome)
         IN IF r.escaped /\ handle_tool_errors
            THEN [r EXCEPT !.escaped = FALSE,
                           !.payload = [kind |-> "error_tool_exception",
                                        file |-> NoFileData]]
            ELSE r

\* agent.py:225 -- ToolNode returns the messages in the order of the requests,
\* each carrying the id of its request.
ToolOutputs_FirstOnly(calls, res) ==
    IF Len(calls) = 0 THEN <<>> ELSE <<ToolMessage(calls[1].id, res[1].payload)>>
ToolOutputs(calls, res) ==
    [i \in 1..Len(calls) |-> ToolMessage(calls[i].id, res[i].payload)]

\* ------------------------------------------------------------ the workflow
\* agent.py:189-192
should_continue_Inverted(msgs) ==
    IF Last(msgs).tool_calls # <<>> THEN END ELSE "tools"
should_continue(msgs) ==
    IF Last(msgs).tool_calls # <<>> THEN "tools" ELSE END

\* agent.py:230 -- workflow.add_edge("tools", "agent")
AfterTools_End == END
AfterTools == "agent"

\* agent.py:223 -- StateGraph(MessagesState): what a node returns under
\* "messages" is appended to the conversation.
add_messages_Replace(left, right) == right
add_messages(left, right) == left \o right

\* agent.py:218 -- llm.invoke is called once, outside any try: its exception
\* leaves call_model and the graph run.
OnModelError_Retry == "agent"
OnModelError == "failed"

\* agent.py:27, 202 -- GLOBAL_USER_TYPE is one module-level name: code run
\* for session s reads whatever any session's call_model assigned last.
RoleReadBy_Own(s) ==
    LET mine == {i \in DOMAIN resolveLog[s] : ~resolveLog[s][i].raised}
    IN IF mine = {} THEN "default"
       ELSE resolveLog[s][CHOOSE i \in mine : \A j \in mine : j <= i].role
RoleReadBy(s) == GLOBAL_USER_TYPE

\* Requests the model has issued so far in the turn of session s.
Issued(s) == Len(toolLog[s])

\* Tool-call lists the model can return: ids continue the turn's numbering.
RECURSIVE CallSeqs(_, _)
CallSeqs(n, first) ==
    IF n = 0 THEN {<<>>}
    ELSE LET shorter == CallSeqs(n - 1, first)
         IN shorter \cup
            {Append(q, [name |-> t, id |-> first + Len(q)]) :
                 q \in {r \in shorter : Len(r) = n - 1}, t \in RequestableTools}

\* ------------------------------------------------------- credential store
Usernames == {"alice", "bob"}
Passwords == {"pw1", "pw2"}
UserTypes == {"admin", "user"}
EmptyDb == [u \in {} |-> 0]
IdleFrame ==
    [pc |-> "idle", username |-> Absent, password |-> Absent,
     hashed_password |-> Absent, user_type |-> Absent, missing |-> FALSE,
     existed |-> FALSE, user_db |-> EmptyDb]

\* create_user.py:6-8 -- a one-way digest: never the text it was given.
hash_password_Plain(password) == password
hash_password(password) == "sha256:" \o password

\* create_user.py:35 -- user_db.update(user_data)
update_Replace(user_db, user_data) == user_data
update(user_db, user_data) ==
    [u \in DOMAIN user_db \cup DOMAIN user_data |->
        IF u \in DOMAIN user_data THEN user_data[u] ELSE user_db[u]]

\* ------------------------------------------------------------------- Init
InitRest ==
    /\ messages = [s \in Sessions |-> <<>>]
    /\ pc = [s \in Sessions |-> "idle"]
    /\ err = [s \in Sessions |-> "none"]
    /\ steps = [s \in Sessions |-> <<>>]
    /\ turnStart = [s \in Sessions |-> 0]
    /\ resolveLog = [s \in Sessions |-> <<>>]
    /\ toolLog = [s \in Sessions |-> <<>>]
    /\ lastWrite = [session |-> 0, content |-> TextContent]
    /\ searchLog = <<>>
    /\ dbFile = [exists |-> FALSE, data |-> [u \in {} |-> 0]]
    /\ cu = [p \in Procs |-> IdleFrame]

Init ==
    /\ GLOBAL_USER_TYPE = "default"
    /\ InitRest

\* agent.invoke({"messages": input}) -- the graph is entered at "agent".
Start(s) ==
    /\ pc[s] = "idle"
    /\ \E input \in InputConversations :
        /\ messages' = [messages EXCEPT ![s] = input]
        /\ turnStart' = [turnStart EXCEPT ![s] = Len(input)]
    /\ pc' = [pc EXCEPT ![s] = "agent"]
    /\ UNCHANGED <<GLOBAL_USER_TYPE, err, steps, resolveLog, toolLog,
                   lastWrite, searchLog, storeVars>>

\* agent.py:195-219 followed by the conditional edge of agent.py:229.
call_model(s) ==
    /\ pc[s] = "agent"
    /\ steps' = [steps EXCEPT ![s] = Append(@, "agent")]
    /\ LET content == Last(messages[s]).content
       IN IF ResolveRaises(content)
          THEN /\ pc' = [pc EXCEPT ![s] = "failed"]
               /\ err' = [err EXCEPT ![s] = "IndexError"]
               /\ resolveLog' = [resolveLog EXCEPT ![s] =
                      Append(@, [content |-> content, raised |-> TRUE,
                                 role |-> GLOBAL_USER_TYPE])]
               /\ UNCHANGED <<GLOBAL_USER_TYPE, lastWrite, messages>>
          ELSE /\ GLOBAL_USER_TYPE' = ResolveRole(content)
               /\ lastWrite' = [session |-> s, content |-> content]
               /\ resolveLog' = [resolveLog EXCEPT ![s] =
                      Append(@, [content |-> content, raised |-> FALSE,
                                 role |-> GLOBAL_USER_TYPE'])]
               /\ \/ \* llm.invoke raises: the exception leaves the graph
                     /\ pc' = [pc EXCEPT ![s] = OnModelError]
                     /\ err' = [err EXCEPT ![s] = "ModelError"]
                     /\ UNCHANGED messages
                  \/ \E calls \in CallSeqs(MaxRequests - Issued(s), Issued(s) + 1) :
                       LET new == add_messages(messages[s], <<AIMessage(calls)>>)
                       IN /\ messages' = [messages EXCEPT ![s] = new]
                          /\ pc' = [pc EXCEPT ![s] = should_continue(new)]
                          /\ UNCHANGED err
    /\ UNCHANGED <<turnStart, toolLog, searchLog, storeVars>>

\* agent.py:225 -- ToolNode(tools): one ToolMessage per request of the last
\* assistant message, in request order, then the edge of agent.py:230.
ToolNode(s) ==
    /\ pc[s] = "tools"
    /\ steps' = [steps EXCEPT ![s] = Append(@, "tools")]
    /\ LET calls == Last(messages[s]).tool_calls
       IN \E oc \in [1..Len(calls) -> {"ok", "raise"}] :
            /\ \A i \in 1..Len(calls) : oc[i] \in Outcomes(calls[i].name, messages[s])
            /\ LET res == [i \in 1..Len(calls) |-> RunOne(calls[i], messages[s], oc[i])]
                   log == [i \in 1..Len(calls) |->
                             [id |-> calls[i].id, tool |-> calls[i].name,
                              role |-> RoleReadBy(s), source |-> lastWrite,
                              step |-> Len(steps[s]) + 1,
                              ran |-> res[i].ran, invoked |-> res[i].invoked,
                              raised |-> res[i].raised, payload |-> res[i].payload]]
                   out == ToolOutputs(calls, res)
               IN /\ toolLog' = [toolLog EXCEPT ![s] = @ \o log]
                  /\ IF \E i \in 1..Len(calls) : res[i].escaped
                     THEN /\ pc' = [pc EXCEPT ![s] = "failed"]
                          /\ err' = [err EXCEPT ![s] = "ToolError"]
                          /\ UNCHANGED messages
                     ELSE /\ messages' = [messages EXCEPT ![s] = add_messages(@, out)]
                          /\ pc' = [pc EXCEPT ![s] = AfterTools]
                          /\ UNCHANGED err
    /\ UNCHANGED <<GLOBAL_USER_TYPE, turnStart, resolveLog, lastWrite,
                   searchLog, storeVars>>

\* One session handled by the process.
Next ==
    \/ Start(1)
    \/ call_model(1)
    \/ ToolNode(1)

Spec == Init /\ [][Next]_vars

\* ----------------------------------------------------- the search tool alone
\* The search tool invoked directly, under whatever role the process holds.
InitSearch ==
    /\ GLOBAL_USER_TYPE \in Roles
    /\ InitRest

\* agent.py:37-45 -- search.invoke({"query": query})
invoke_search(query) ==
    /\ Len(searchLog) < MaxSearchCalls
    /\ searchLog' = Append(searchLog,
           [role |-> GLOBAL_USER_TYPE, query |-> query,
            result |-> search(query, GLOBAL_USER_TYPE)])
    /\ UNCHANGED <<agentVars, storeVars>>

NextSearch == \E query \in Queries : invoke_search(query)

SpecSearch == InitSearch /\ [][NextSearch]_vars

\* ------------------------------------------------------ create_user, stepwise
\* create_user.py:11-25 -- the call: hash the password, build user_data.
cu_call(p, username, password, user_type) ==
    /\ cu[p].pc \in {"idle", "returned"}
    /\ cu' = [cu EXCEPT ![p] =
           [pc |-> "load", username |-> username, password |-> password,
            hashed_password |-> hash_password(password),
            user_type |-> user_type, missing |-> FALSE, existed |-> FALSE,
            user_db |-> EmptyDb]]
    /\ UNCHANGED <<agentVars, searchLog, dbFile>>

\* create_user.py:27-32 under a lock that the source does not take.
cu_load_Locked(p) ==
    /\ cu[p].pc = "load"
    /\ \A q \in Procs \ {p} : cu[q].pc # "save"
    /\ cu' = [cu EXCEPT ![p].pc = "save",
                        ![p].missing = ~dbFile.exists,
                        ![p].existed = dbFile.exists /\ cu[p].username \in DOMAIN dbFile.data,
                        ![p].user_db = IF dbFile.exists THEN dbFile.data ELSE EmptyDb]
    /\ UNCHANGED <<agentVars, searchLog, dbFile>>

\* create_user.py:27-32 -- json.load of the file, {} on FileNotFoundError;
\* existed tells whether the file already held the username.
cu_load(p) ==
    /\ cu[p].pc = "load"
    /\ cu' = [cu EXCEPT ![p].pc = "save",
                        ![p].missing = ~dbFile.exists,
                        ![p].existed = dbFile.exists /\ cu[p].username \in DOMAIN dbFile.data,
                        ![p].user_db = IF dbFile.exists THEN dbFile.data ELSE EmptyDb]
    /\ UNCHANGED <<agentVars, searchLog, dbFile>>

\* create_user.py:34-41 -- update the mapping and rewrite the whole file.
cu_save(p) ==
    /\ cu[p].pc = "save"
    /\ LET user_data == [u \in {cu[p].username} |->
                            [password |-> cu[p].hashed_password,
                             user_type |-> cu[p].user_type]]
           user_db == update(cu[p].user_db, user_data)
       IN /\ dbFile' = [exists |-> TRUE, data |-> user_db]
          /\ cu' = [cu EXCEPT ![p].pc = "returned", ![p].user_db = user_db]
    /\ UNCHANGED <<agentVars, searchLog>>

\* One caller at a time: each call runs to its end before the next starts.
NextStore ==
    \/ \E u \in Usernames, pw \in Passwords, t \in UserTypes : cu_call(1, u, pw, t)
    \/ cu_load(1)
    \/ cu_save(1)

SpecStore == Init /\ [][NextStore]_vars

\* ------------------------------------------------ two sessions, one process
\* Most tool requests the model issues per turn when two sessions run.
MaxConcRequests == 1

\* Inputs of the two concurrently handled conversations.
ConcContents ==
    { ListContent(<<Part(TRUE, "text", "admin", NoFileData)>>),
      ListContent(<<Part(TRUE, "text", "user", NoFileData)>>) }

\* agent.invoke({"messages": input}) for one of the two conversations.
StartConc(s) ==
    /\ pc[s] = "idle"
    /\ \E c \in ConcContents :
        /\ messages' = [messages EXCEPT ![s] = <<HumanMessage(c)>>]
        /\ turnStart' = [turnStart EXCEPT ![s] = 1]
    /\ pc' = [pc EXCEPT ![s] = "agent"]
    /\ UNCHANGED <<GLOBAL_USER_TYPE, err, steps, resolveLog, toolLog,
                   lastWrite, searchLog, storeVars>>

\* Requests carried by the assistant messages of a conversation.
RECURSIVE RequestsIn(_)
RequestsIn(msgs) ==
    IF msgs = <<>> THEN 0
    ELSE Len(Last(msgs).tool_calls) + RequestsIn(SubSeq(msgs, 1, Len(msgs) - 1))

\* Both conversations are served by the same process: their graph steps
\* interleave in any order.
NextConc ==
    \E s \in Sessions :
        \/ StartConc(s)
        \/ call_model(s) /\ RequestsIn(messages'[s]) <= MaxConcRequests
        \/ ToolNode(s)

SpecConc == Init /\ [][NextConc]_vars

\* --------------------------------------------- create_user, two processes
\* Two runs of the script on the same file, their steps in any order.
NextStoreConc ==
    \E p \in Procs :
        \/ \E u \in Usernames, pw \in Passwords, t \in UserTypes : cu_call(p, u, pw, t)
        \/ cu_load(p)
        \/ cu_save(p)

SpecStoreConc == Init /\ [][NextStoreConc]_vars

\* ------------------------------------------------------------- properties
Entries(log) == {log[i] : i \in DOMAIN log}
NumSteps(s, node) == Cardinality({i \in DOMAIN steps[s] : steps[s][i] = node})
\* Assistant messages of the turn that carry at least one request.
RequestingMessages(s) ==
    {i \in DOMAIN messages[s] :
        /\ i > turnStart[s]
        /\ messages[s][i].type = "ai"
        /\ messages[s][i].tool_calls # <<>>}
ErrorKinds == {"error_processing", "error_tool_exception"}

\* C1 (as claimed): a registered tool that TOOL_PERMISSION does not list for
\* the session role never runs its body under that role; the request gets a
\* permission-denial result instead.
C1_Unlisted_Tool_Never_Runs ==
    \A s \in Sessions : \A e \in Entries(toolLog[s]) :
        (e.tool \in tools /\ e.tool \notin TOOL_PERMISSION_get(e.role))
            => (~e.ran /\ e.payload.kind = "error_permission_denied")

\* C2 (as claimed): every Acting step of a turn reads the role resolved from
\* the latest human message at turn start, and every later Reasoning step of
\* the turn leaves the role at that value.
C2_Role_Fixed_For_Turn ==
    \A s \in Sessions :
        LET turnRole == ResolveRole(messages[s][turnStart[s]].content)
        IN /\ \A e \in Entries(toolLog[s]) : e.role = turnRole
           /\ \A r \in Entries(resolveLog[s]) : ~r.raised => r.role = turnRole

\* C3 (as claimed): a direct call of search gets the permission-denial text
\* exactly when "search" is not listed for the role the process holds.
C3_Denial_Iff_Not_Listed ==
    \A e \in Entries(searchLog) :
        (e.result = "You do not have permission to run this tool.")
            <=> ("search" \notin TOOL_PERMISSION_get(e.role))

\* C4 (as claimed): role resolution never raises, and yields the first part's
\* "user_type" when the first part is a dict carrying one, else "default".
C4_Resolution_Never_Fails ==
    \A s \in Sessions : \A r \in Entries(resolveLog[s]) :
        LET c == r.content
            claimed == IF /\ c.isList
                          /\ Len(c.parts) > 0
                          /\ c.parts[1].isDict
                          /\ c.parts[1].user_type # Absent
                       THEN c.parts[1].user_type
                       ELSE "default"
        IN ~r.raised /\ r.role = claimed

\* The nodes alternate, "agent" first.
Alternates(s) ==
    \A i \in DOMAIN steps[s] :
        steps[s][i] = IF i % 2 = 1 THEN "agent" ELSE "tools"
\* k + 1 Reasoning steps and k Acting steps, k the requesting messages.
CountsMatch(s) ==
    LET k == Cardinality(RequestingMessages(s))
    IN NumSteps(s, "agent") = k + 1 /\ NumSteps(s, "tools") = k

\* C5 (as claimed): every run of the loop reaches Done, with k + 1 Reasoning
\* and k Acting steps in strict alternation: a started run is either at Done
\* with those counts or still has a step to take.  Runs that the IndexError
\* of role resolution ends are left aside, so that what refutes this is a
\* failed model call alone.
C5_Always_Reaches_Done ==
    \A s \in Sessions :
        (pc[s] # "idle" /\ err[s] # "IndexError") =>
            /\ Alternates(s)
            /\ IF pc[s] = END THEN CountsMatch(s)
               ELSE ENABLED (call_model(s) \/ ToolNode(s))

\* C5 (amended): whenever the loop is at Done it has run exactly k + 1
\* Reasoning and k Acting steps, and in every state the steps run so far
\* alternate strictly, starting with Reasoning.
C5_Done_Step_Counts ==
    \A s \in Sessions :
        /\ Alternates(s)
        /\ pc[s] = END => CountsMatch(s)

C5_Witness ==
    pc[1] = END /\ Cardinality(RequestingMessages(1)) = 2

\* C6: when a Reasoning step is about to start after an Acting step, the
\* messages after the last assistant message are exactly one tool result per
\* request of that message, in request order, with the request's id.
C6_Results_Before_Reasoning ==
    \A s \in Sessions :
        (pc[s] = "agent" /\ steps[s] # <<>>) =>
            LET ai == {i \in DOMAIN messages[s] : messages[s][i].type = "ai"}
                last == CHOOSE i \in ai : \A j \in ai : j <= i
                calls == messages[s][last].tool_calls
            IN /\ ai # {}
               /\ Len(messages[s]) = last + Len(calls)
               /\ \A k \in DOMAIN calls :
                    /\ messages[s][last + k].type = "tool"
                    /\ messages[s][last + k].tool_call_id = calls[k].id

C6_Witness ==
    /\ pc[1] = "agent"
    /\ steps[1] = <<"agent", "tools">>
    /\ Len(toolLog[1]) = 2

\* C7: after a Reasoning step the loop is at Acting iff the assistant message
\* just appended carries requests, and otherwise at Done with that message
\* last in the conversation and no Acting step in between.
C7_Next_Node_From_Last_Message ==
    \A s \in Sessions :
        /\ (steps[s] # <<>> /\ Last(steps[s]) = "agent" /\ pc[s] # "failed")
              => /\ Last(messages[s]).type = "ai"
                 /\ pc[s] = IF Last(messages[s]).tool_calls # <<>>
                            THEN "tools" ELSE END
        /\ pc[s] = "tools" => Last(steps[s]) = "agent"
        /\ pc[s] = END =>
              /\ Last(steps[s]) = "agent"
              /\ Last(messages[s]).type = "ai"
              /\ Last(messages[s]).tool_calls = <<>>

C7_Witness ==
    pc[1] = END /\ steps[1] = <<"agent">>

\* C8 (as claimed): a request for "search" handled while the role is "user"
\* gets a result whose payload states a permission denial, and the loop goes
\* on to the next Reasoning step.
C8_User_Search_Denied ==
    \A s \in Sessions : \A e \in Entries(toolLog[s]) :
        (e.tool = "search" /\ e.role = "user")
            => /\ e.payload.kind = "error_permission_denied"
               /\ err[s] # "ToolError"

\* C9: an error raised inside a registered tool never leaves the loop: the
\* request gets a tool result carrying an error description, and the Acting
\* step is followed by the next Reasoning step.
C9_Tool_Errors_Become_Results ==
    \A s \in Sessions :
        /\ err[s] # "ToolError"
        /\ \A e \in Entries(toolLog[s]) :
              e.raised =>
                 /\ e.tool \in tools
                 /\ e.payload.kind \in ErrorKinds
                 /\ \E i \in DOMAIN messages[s] :
                       messages[s][i] = ToolMessage(e.id, e.payload)
        /\ (steps[s] # <<>> /\ Last(steps[s]) = "tools") => pc[s] = "agent"

C9_Witness ==
    /\ pc[1] = "agent"
    /\ \E e \in Entries(toolLog[1]) :
          e.raised /\ e.tool = "find_similar_products"
    /\ \E e \in Entries(toolLog[1]) :
          e.raised /\ e.tool = "extract_product_info"

\* C10: a create_user call that found no store file leaves a file holding
\* exactly one entry, keyed by the username, whose password is the hash of
\* the given password (not the password itself) with the chosen user_type.
C10_First_User_Creates_Store ==
    \A p \in Procs :
        (cu[p].pc = "returned" /\ cu[p].missing) =>
            /\ dbFile.exists
            /\ DOMAIN dbFile.data = {cu[p].username}
            /\ dbFile.data[cu[p].username].password = "sha256:" \o cu[p].password
            /\ dbFile.data[cu[p].username].password # cu[p].password
            /\ dbFile.data[cu[p].username].user_type = cu[p].user_type

C10_Witness ==
    cu[1].pc = "returned" /\ cu[1].missing /\ cu[1].user_type = "admin"

\* The role the contract assigns to a latest message of the given content.
ExpectedRole(content) ==
    IF /\ content.isList
       /\ Len(content.parts) > 0
       /\ content.parts[1].isDict
       /\ content.parts[1].user_type # Absent
    THEN content.parts[1].user_type
    ELSE "default"

\* C11 (as claimed): every Reasoning step of a turn that re-runs the role
\* resolution leaves the session role at the value the turn's first
\* Reasoning step resolved.
C11_Resolution_Idempotent_In_Turn ==
    \A s \in Sessions : \A i \in DOMAIN resolveLog[s] :
        (~resolveLog[s][1].raised /\ ~resolveLog[s][i].raised)
            => resolveLog[s][i].role = resolveLog[s][1].role

\* Messages of a conversation that hold a part of type image_url or media.
FileMessages(msgs) ==
    {i \in DOMAIN msgs :
        \E j \in DOMAIN msgs[i].content.parts :
            /\ msgs[i].content.parts[j].isDict
            /\ msgs[i].content.parts[j].type \in {"image_url", "media"}}

\* C12 (as claimed): when some message holds a file part, the part that
\* extract_product_info hands to the model is one of the most recent such
\* message, never one of an earlier message.
C12_Most_Recent_File_Selected ==
    \A s \in Sessions : \A e \in Entries(toolLog[s]) :
        (e.tool = "extract_product_info" /\ FileMessages(messages[s]) # {}) =>
            LET fm == FileMessages(messages[s])
                latest == CHOOSE i \in fm : \A j \in fm : j <= i
                parts == messages[s][latest].content.parts
            IN \E j \in DOMAIN parts :
                  /\ parts[j].type \in {"image_url", "media"}
                  /\ parts[j].data = e.payload.file

\* C14: when no message holds a file part, extract_product_info returns the
\* "not found" error payload without calling the model and without raising;
\* the payload is appended as the tool result and the Acting step is followed
\* by the next Reasoning step.
C14_No_File_Not_Found_Payload ==
    \A s \in Sessions :
        /\ \A e \in Entries(toolLog[s]) :
              (e.tool = "extract_product_info" /\ FileMessages(messages[s]) = {}) =>
                  /\ e.ran /\ ~e.invoked /\ ~e.raised
                  /\ e.payload.kind = "error_not_found"
                  /\ \E i \in DOMAIN messages[s] :
                        messages[s][i] = ToolMessage(e.id, e.payload)
        /\ (FileMessages(messages[s]) = {} /\ steps[s] # <<>>
              /\ Last(steps[s]) = "tools") => pc[s] = "agent"

C14_Witness ==
    /\ pc[1] = "agent"
    /\ FileMessages(messages[1]) = {}
    /\ \E e \in Entries(toolLog[1]) : e.tool = "extract_product_info"

\* Assistant messages appended in the turn of session s.
AssistantMessages(s) ==
    {i \in DOMAIN messages[s] : i > turnStart[s] /\ messages[s][i].type = "ai"}

\* C15: a failed model call ends the turn: the run has left the graph with
\* the error, no Reasoning or Acting step can follow, and the failed step
\* appended no assistant message.
C15_Model_Failure_Is_Fatal ==
    \A s \in Sessions :
        err[s] = "ModelError" =>
            /\ pc[s] = "failed"
            /\ ~ENABLED (call_model(s) \/ ToolNode(s))
            /\ Last(steps[s]) = "agent"
            /\ Last(messages[s]).type # "ai"
            /\ Cardinality(AssistantMessages(s)) = NumSteps(s, "agent") - 1

C15_Witness ==
    err[1] = "ModelError" /\ steps[1] = <<"agent", "tools", "agent">>

IsPrefix(a, b) ==
    Len(a) <= Len(b) /\ \A i \in DOMAIN a : b[i] = a[i]

\* C16 (amended): the conversation only grows: every step leaves the earlier
\* conversation as a prefix of the later one, a completed Reasoning step
\* appends exactly one assistant message, and a completed Acting step appends
\* tool-result messages only.
C16_Conversation_Append_Only ==
    [][\A s \in Sessions :
          pc[s] # "idle" =>
             /\ IsPrefix(messages[s], messages'[s])
             /\ (steps'[s] # steps[s] /\ pc'[s] # "failed") =>
                   IF Last(steps'[s]) = "agent"
                   THEN /\ Len(messages'[s]) = Len(messages[s]) + 1
                        /\ Last(messages'[s]).type = "ai"
                   ELSE \A i \in (Len(messages[s]) + 1)..Len(messages'[s]) :
                           messages'[s][i].type = "tool"]_vars

\* C16 (as claimed): as above, with every Reasoning step, also one whose
\* model call fails, appending exactly one assistant message.  Steps that
\* the IndexError of role resolution ends are left aside.
C16_Every_Reasoning_Step_Appends ==
    [][\A s \in Sessions :
          (pc[s] # "idle" /\ err'[s] # "IndexError") =>
             /\ IsPrefix(messages[s], messages'[s])
             /\ steps'[s] # steps[s] =>
                   IF Last(steps'[s]) = "agent"
                   THEN /\ Len(messages'[s]) = Len(messages[s]) + 1
                        /\ Last(messages'[s]).type = "ai"
                   ELSE \A i \in (Len(messages[s]) + 1)..Len(messages'[s]) :
                           messages'[s][i].type = "tool"]_vars

C16_Witness ==
    pc[1] = END /\ steps[1] = <<"agent", "tools", "agent">> /\ Len(toolLog[1]) = 2

\* C19: in a single session, every tool run by the first Acting step of a
\* turn reads the role that belongs to the human message last in the
\* conversation at turn start; that role was written by the first Reasoning
\* step, and no tool runs before a Reasoning step has written the role.
C19_First_Acting_Reads_Turn_Role ==
    \A s \in Sessions : \A e \in Entries(toolLog[s]) :
        /\ steps[s][1] = "agent"
        /\ ~resolveLog[s][1].raised
        /\ e.source.session = s
        /\ e.step = 2 =>
              /\ messages[s][turnStart[s]].type = "human"
              /\ e.role = ExpectedRole(messages[s][turnStart[s]].content)
              /\ e.role = resolveLog[s][1].role

C19_Witness ==
    \E e \in Entries(toolLog[1]) :
        e.step = 2 /\ e.role = "admin" /\ e.ran

C17_Upsert_One_Entry ==
    [][\A p \in Procs :
          (cu[p].pc = "save" /\ cu'[p].pc = "returned") =>
             LET before == IF dbFile.exists THEN dbFile.data ELSE EmptyDb
                 u == cu[p].username
             IN /\ dbFile'.exists
                /\ DOMAIN dbFile'.data = DOMAIN before \cup {u}
                /\ dbFile'.data[u] = [password |-> "sha256:" \o cu[p].password,
                                      user_type |-> cu[p].user_type]
                /\ \A o \in DOMAIN before \ {u} : dbFile'.data[o] = before[o]]_vars

\* The store holds two users and the last call overwrote an existing entry.
C17_Witness ==
    /\ cu[1].pc = "returned"
    /\ Cardinality(DOMAIN dbFile.data) = 2
    /\ cu[1].existed

\* C18: nothing keeps one create_user call out while another is between its
\* read and its write: a call that is about to read can always read, and a
\* call that is about to write can always write, whatever the other does.
C18_No_Writer_Exclusion ==
    \A p \in Procs :
        /\ cu[p].pc = "load" => ENABLED cu_load(p)
        /\ cu[p].pc = "save" => ENABLED cu_save(p)

\* Two first calls for distinct usernames have both returned and the store
\* holds one entry only: the other update is lost.
C18_Witness ==
    /\ cu[1].pc = "returned" /\ cu[2].pc = "returned"
    /\ cu[1].username # cu[2].username
    /\ cu[1].missing /\ cu[2].missing
    /\ Cardinality(DOMAIN dbFile.data) = 1

====
